---------------------------- MODULE Spec2Model ----------------------------
(***************************************************************************)
(* Model of the Strawberry collection filter (CollectionFilter, a          *)
(* QSortFilterProxyModel over CollectionModel) and of the collection tree  *)
(* it filters.                                                             *)
(*                                                                         *)
(* A QString is a sequence of one-character strings; a QStringList is a    *)
(* sequence of those.  The model follows the Qt 6 build of the source (the *)
(* QT_VERSION >= 6 branches).                                              *)
(***************************************************************************)
EXTENDS Integers, Sequences, FiniteSets, TLC

(***************************************************************************)
(* QString helpers                                                         *)
(***************************************************************************)

Whitespace == {" ", "\t"}

UpperCase ==
  <<"A", "B", "C", "D", "E", "F", "G", "H", "I", "J", "K", "L", "M",
    "N", "O", "P", "Q", "R", "S", "T", "U", "V", "W", "X", "Y", "Z">>

LowerCase ==
  <<"a", "b", "c", "d", "e", "f", "g", "h", "i", "j", "k", "l", "m",
    "n", "o", "p", "q", "r", "s", "t", "u", "v", "w", "x", "y", "z">>

\* Qt::CaseInsensitive comparison folds case.
ToLowerChar(c) ==
  IF \E k \in 1..26 : UpperCase[k] = c
  THEN LowerCase[CHOOSE k \in 1..26 : UpperCase[k] = c]
  ELSE c

ToLower(s) == [i \in 1..Len(s) |-> ToLowerChar(s[i])]

\* sub occurs in s at position i.
OccursAt(s, sub, i) ==
  /\ i >= 1
  /\ i + Len(sub) - 1 <= Len(s)
  /\ \A k \in 1..Len(sub) : s[i + k - 1] = sub[k]

\* QString::contains(sub, Qt::CaseSensitive)
StrContains(s, sub) == \E i \in 1..(Len(s) + 1) : OccursAt(s, sub, i)

\* QString::contains(sub, Qt::CaseInsensitive)
StrContainsCI(s, sub) == StrContains(ToLower(s), ToLower(sub))

\* QStringList::contains(str, Qt::CaseSensitive)
ListContains(list, str) == \E i \in 1..Len(list) : list[i] = str

\* QStringList::contains(str, Qt::CaseInsensitive)
ListContainsCI(list, str) == \E i \in 1..Len(list) : ToLower(list[i]) = ToLower(str)

\* QString::count(QChar)
CharCount(s, c) == Cardinality({i \in 1..Len(s) : s[i] = c})

\* Position of the first occurrence of sep in s, 0 when there is none.
IndexOf(s, sep) ==
  IF StrContains(s, sep) /\ Len(sep) > 0
  THEN CHOOSE i \in 1..Len(s) :
         /\ OccursAt(s, sep, i)
         /\ \A j \in 1..(i - 1) : ~OccursAt(s, sep, j)
  ELSE 0

\* QString::section(sep, 0, 0): the text before the first sep (all of s when
\* sep does not occur).
SectionFirst(s, sep) ==
  LET p == IndexOf(s, sep) IN IF p = 0 THEN s ELSE SubSeq(s, 1, p - 1)

\* QString::section(sep, 1, -1): the text after the first sep, later
\* separators included (empty when sep does not occur).
SectionRest(s, sep) ==
  LET p == IndexOf(s, sep)
  IN IF p = 0 THEN <<>> ELSE SubSeq(s, p + Len(sep), Len(s))

\* QString::remove(sub): every non-overlapping occurrence, left to right.
RECURSIVE StrRemove(_, _)
StrRemove(s, sub) ==
  LET p == IndexOf(s, sub)
  IN IF p = 0 THEN s
     ELSE SubSeq(s, 1, p - 1) \o StrRemove(SubSeq(s, p + Len(sub), Len(s)), sub)

\* QString::trimmed()
RECURSIVE Trimmed(_)
Trimmed(s) ==
  IF s = <<>> THEN s
  ELSE IF Head(s) \in Whitespace THEN Trimmed(Tail(s))
  ELSE IF s[Len(s)] \in Whitespace THEN Trimmed(SubSeq(s, 1, Len(s) - 1))
  ELSE s

\* QStringList::join(' ')
RECURSIVE JoinSpace(_)
JoinSpace(list) ==
  IF list = <<>> THEN <<>>
  ELSE IF Len(list) = 1 THEN list[1]
  ELSE list[1] \o <<" ">> \o JoinSpace(Tail(list))


RECURSIVE TrimLeft(_)
TrimLeft(s) ==
  IF s # <<>> /\ Head(s) \in Whitespace THEN TrimLeft(Tail(s)) ELSE s

RECURSIVE TrimRight(_)
TrimRight(s) ==
  IF s # <<>> /\ s[Len(s)] \in Whitespace
  THEN TrimRight(SubSeq(s, 1, Len(s) - 1))
  ELSE s

\* QString::replace(QRegularExpression("\\s*op\\s*"), op): every match, left to
\* right; a match is an occurrence of op with the whitespace around it.
RECURSIVE ReplaceAroundOp(_, _)
ReplaceAroundOp(s, op) ==
  LET p == IndexOf(s, op)
  IN IF p = 0 THEN s
     ELSE TrimRight(SubSeq(s, 1, p - 1)) \o op
          \o ReplaceAroundOp(TrimLeft(SubSeq(s, p + Len(op), Len(s))), op)

\* QString::split(QRegularExpression("\\s+"), Qt::SkipEmptyParts)
RECURSIVE SplitWhitespace(_)
SplitWhitespace(s) ==
  LET t == TrimLeft(s)
  IN IF t = <<>> THEN <<>>
     ELSE LET ws == {i \in 1..Len(t) : t[i] \in Whitespace}
              e == IF ws = {} THEN Len(t) + 1
                   ELSE CHOOSE i \in ws : \A j \in ws : i <= j
          IN <<SubSeq(t, 1, e - 1)>> \o SplitWhitespace(SubSeq(t, e, Len(t)))

(***************************************************************************)
(* QVariant: a type tag and a value.  A qint64 is the pair <<q, r>> of its  *)
(* quotient and remainder by kNsecPerSec, 0 <= r < kNsecPerSec, so that     *)
(* nanosecond values stay inside machine integers; a float is the         *)
(* integer number of tenths.                                               *)
(***************************************************************************)

kNsecPerSec == 1000000000

InvalidVariant == [t |-> "Invalid", v |-> 0]
StringVariant(s) == [t |-> "QString", v |-> s]
IntVariant(n) == [t |-> "Int", v |-> n]
UIntVariant(n) == [t |-> "UInt", v |-> n]
LongLongVariant(n) == [t |-> "LongLong", v |-> n]
FloatVariant(n) == [t |-> "Float", v |-> n]

\* static_cast<qint64>(seconds) * kNsecPerSec
SecondsToNsec(seconds) == <<seconds, 0>>

\* Order of two values held as <<q, r>> pairs.
WideLess(a, b) == a[1] < b[1] \/ (a[1] = b[1] /\ a[2] < b[2])

(***************************************************************************)
(* Number parsing                                                          *)
(***************************************************************************)

Digits == <<"0", "1", "2", "3", "4", "5", "6", "7", "8", "9">>

IsDigit(c) == \E d \in 1..10 : Digits[d] = c

DigitValue(c) == (CHOOSE d \in 1..10 : Digits[d] = c) - 1

IsDigitString(s) == Len(s) >= 1 /\ \A i \in 1..Len(s) : IsDigit(s[i])

RECURSIVE DigitsValue(_)
DigitsValue(s) ==
  IF s = <<>> THEN 0
  ELSE DigitsValue(SubSeq(s, 1, Len(s) - 1)) * 10 + DigitValue(s[Len(s)])

RECURSIVE StripZeros(_)
StripZeros(s) ==
  IF Len(s) > 1 /\ Head(s) = "0" THEN StripZeros(Tail(s)) ELSE s

\* The digit string is at most lim9 * 10 + last, a bound of ten digits.
DigitsAtMost(s, lim9, last) ==
  LET d == StripZeros(s)
  IN \/ Len(d) <= 9
     \/ /\ Len(d) = 10
        /\ LET a == DigitsValue(SubSeq(d, 1, 9))
               b == DigitValue(d[10])
           IN a < lim9 \/ (a = lim9 /\ b <= last)

\* QString::toInt(&ok) of a token part (no whitespace, base 10):
\* [ok, v]; a value outside 32 bits fails.
ToInt(s) ==
  LET neg == s # <<>> /\ Head(s) = "-"
      signed == s # <<>> /\ Head(s) \in {"-", "+"}
      d == IF signed THEN Tail(s) ELSE s
      fits == IsDigitString(d) /\ DigitsAtMost(d, 214748364, IF neg THEN 8 ELSE 7)
      min == neg /\ fits /\ StripZeros(d) = <<"2","1","4","7","4","8","3","6","4","8">>
  IN IF ~fits THEN [ok |-> FALSE, v |-> 0]
     ELSE IF min THEN [ok |-> TRUE, v |-> (-2147483647) - 1]
     ELSE [ok |-> TRUE, v |-> IF neg THEN 0 - DigitsValue(d) ELSE DigitsValue(d)]

\* An unsigned 32-bit value as the pair <<q, r>> of its quotient and
\* remainder by 10^9.
UIntOf(n) == <<0, n>>

\* QString::toUInt(&ok): [ok, v]; a sign of "-" or a value above 4294967295
\* fails.
ToUInt(s) ==
  LET d == IF s # <<>> /\ Head(s) = "+" THEN Tail(s) ELSE s
      fits == IsDigitString(d) /\ DigitsAtMost(d, 429496729, 5)
      z == StripZeros(d)
  IN IF ~fits THEN [ok |-> FALSE, v |-> UIntOf(0)]
     ELSE IF Len(z) <= 9 THEN [ok |-> TRUE, v |-> UIntOf(DigitsValue(z))]
     ELSE [ok |-> TRUE, v |-> <<DigitValue(z[1]), DigitsValue(Tail(z))>>]

(***************************************************************************)
(* Song's search columns and the search value parsers                      *)
(***************************************************************************)

kTextSearchColumns ==
  << <<"a", "r", "t", "i", "s", "t">>, <<"a", "l", "b", "u", "m">>, <<"a", "l", "b", "u", "m", "a", "r", "t", "i", "s", "t">>, <<"t", "i", "t", "l", "e">>, <<"c", "o", "m", "p", "o", "s", "e", "r">>,
     <<"p", "e", "r", "f", "o", "r", "m", "e", "r">>, <<"g", "r", "o", "u", "p", "i", "n", "g">>, <<"g", "e", "n", "r", "e">>, <<"c", "o", "m", "m", "e", "n", "t">> >>

kIntSearchColumns ==
  << <<"t", "r", "a", "c", "k">>, <<"d", "i", "s", "c">>, <<"y", "e", "a", "r">>, <<"s", "a", "m", "p", "l", "e", "r", "a", "t", "e">>, <<"b", "i", "t", "d", "e", "p", "t", "h">>, <<"b", "i", "t", "r", "a", "t", "e">> >>

kUIntSearchColumns == << <<"p", "l", "a", "y", "c", "o", "u", "n", "t">>, <<"s", "k", "i", "p", "c", "o", "u", "n", "t">> >>

kInt64SearchColumns == << <<"l", "e", "n", "g", "t", "h">> >>

kFloatSearchColumns == << <<"r", "a", "t", "i", "n", "g">> >>

kNumericalSearchColumns ==
  kIntSearchColumns \o kUIntSearchColumns \o kInt64SearchColumns
  \o kFloatSearchColumns

\* Utilities::ParseSearchTime: a time expression [[h:]m:]s to seconds; 0 when
\* the text is no time expression.
RECURSIVE ParseSearchTimeFrom(_, _, _, _)
ParseSearchTimeFrom(s, seconds, accum, colons) ==
  IF s = <<>> THEN seconds * 60 + accum
  ELSE IF IsDigit(Head(s))
  THEN ParseSearchTimeFrom(Tail(s), seconds, accum * 10 + DigitValue(Head(s)), colons)
  ELSE IF Head(s) = ":" /\ colons < 2
  THEN ParseSearchTimeFrom(Tail(s), seconds * 60 + accum, 0, colons + 1)
  ELSE 0

ParseSearchTime(s) == ParseSearchTimeFrom(s, 0, 0, 0)

\* Utilities::ParseSearchRating: a count of stars 0..5 to the rating in
\* tenths (stars / 5); -1 (unrated) when the text is no rating.
ParseSearchRating(s) ==
  LET n == ToInt(s)
  IN IF n.ok /\ n.v >= 0 /\ n.v <= 5 THEN n.v * 2 ELSE -10

(***************************************************************************)
(* CollectionFilter: the query parser                                      *)
(***************************************************************************)

Operators ==
  << <<":">>, <<"=">>, <<"=", "=">>, <<"<", ">">>, <<"<">>, <<"<", "=">>, <<">">>, <<">", "=">> >>

\* ContainsOperators that knows the colon alone.
ContainsColonOnly(token) == StrContainsCI(token, <<":">>)

\* CollectionFilter::ContainsOperators
ContainsOperators(token) ==
  \E k \in 1..Len(Operators) : StrContainsCI(token, Operators[k])

\* The alternative of operator_regex "(=|<[>=]?|>=?|!=)" that matches at
\* position i of the token, <<>> when none does.
OperatorAt(token, i) ==
  LET c == token[i]
      n == IF i < Len(token) THEN token[i + 1] ELSE ""
  IN IF c = "=" THEN <<"=">>
     ELSE IF c = "<" THEN (IF n \in {">", "="} THEN <<c, n>> ELSE <<"<">>)
     ELSE IF c = ">" THEN (IF n = "=" THEN <<">", "=">> ELSE <<">">>)
     ELSE IF c = "!" /\ n = "=" THEN <<"!", "=">>
     ELSE <<>>

\* operator_regex.match(token).captured(0): the leftmost match, <<>> when the
\* token has none.
OperatorRegexMatch(token) ==
  LET hits == {i \in 1..Len(token) : OperatorAt(token, i) # <<>>}
  IN IF hits = {} THEN <<>>
     ELSE OperatorAt(token, CHOOSE i \in hits : \A j \in hits : i <= j)

FilterData(field, value, foperator) ==
  [field |-> field, value |-> value, foperator |-> foperator]

\* The phrase loop without the cut at the closing quotation mark: the
\* closing token is appended as it stands.
RECURSIVE AccumulatePhraseKeepQuote(_, _, _, _, _, _)
AccumulatePhraseKeepQuote(tokens, y, value, quotation_mark_start, quotation_mark_end, i) ==
  IF y > Len(tokens) \/ quotation_mark_end THEN [value |-> value, i |-> i]
  ELSE IF ~quotation_mark_start /\ ContainsOperators(tokens[y])
  THEN [value |-> value, i |-> i]
  ELSE AccumulatePhraseKeepQuote(
         tokens, y + 1, value \o <<" ">> \o tokens[y], quotation_mark_start,
         quotation_mark_start /\ StrContains(tokens[y], <<"\"">>), y)

\* The inner loop of phrase accumulation (y, quotation_mark_end and i of the
\* source): [value, i] when it ends.
RECURSIVE AccumulatePhrase(_, _, _, _, _, _)
AccumulatePhrase(tokens, y, value, quotation_mark_start, quotation_mark_end, i) ==
  IF y > Len(tokens) \/ quotation_mark_end THEN [value |-> value, i |-> i]
  ELSE IF ~quotation_mark_start /\ ContainsOperators(tokens[y])
  THEN [value |-> value, i |-> i]
  ELSE LET closes == quotation_mark_start /\ StrContains(tokens[y], <<"\"">>)
           next_value ==
             IF closes
             THEN Trimmed(StrRemove(SectionFirst(tokens[y], <<"\"">>), <<"\"">>))
             ELSE tokens[y]
       IN AccumulatePhrase(tokens, y + 1, value \o <<" ">> \o next_value,
                           quotation_mark_start, closes, y)

\* What one iteration of the token loop does with tokens[i]:
\*   i     the index of the last token it consumed,
\*   ins   the FilterData it inserts into filterdata_list (none or one),
\*   free  whether it appends tokens[i] to the residual filter text.
TextToken(tokens, i, field, value) ==
  LET quotation_mark_start == SubSeq(value, 1, 1) = <<"\"">>
      v1 == IF quotation_mark_start THEN Tail(value) ELSE value
      quotation_mark_end ==
        quotation_mark_start /\ Len(v1) >= 1 /\ CharCount(v1, "\"") = 1
      v2 == IF quotation_mark_end
            THEN Trimmed(StrRemove(SectionFirst(v1, <<"\"">>), <<"\"">>))
            ELSE v1
      acc == AccumulatePhrase(tokens, i + 1, v2, quotation_mark_start,
                              quotation_mark_end, i)
  IN [i |-> acc.i,
      ins |-> IF field # <<>> /\ acc.value # <<>>
              THEN <<FilterData(field, StringVariant(acc.value), <<>>)>>
              ELSE <<>>,
      free |-> FALSE]

ColonToken(tokens, i) ==
  LET token == tokens[i]
      field == Trimmed(StrRemove(SectionFirst(token, <<":">>), <<":">>))
      value == Trimmed(StrRemove(SectionRest(token, <<":">>), <<":">>))
  IN IF field = <<>> \/ value = <<>>
     THEN [i |-> i, ins |-> <<>>, free |-> FALSE]
     ELSE IF ListContainsCI(kTextSearchColumns, field) /\ CharCount(value, "\"") <= 2
     THEN TextToken(tokens, i, field, value)
     ELSE [i |-> i, ins |-> <<>>, free |-> TRUE]

OperatorToken(tokens, i) ==
  LET token == tokens[i]
      foperator == OperatorRegexMatch(token)
      field == Trimmed(StrRemove(SectionFirst(token, foperator), foperator))
      value == Trimmed(StrRemove(SectionRest(token, foperator), foperator))
      Insert(v) == [i |-> i, ins |-> <<FilterData(field, v, foperator)>>, free |-> FALSE]
      Free == [i |-> i, ins |-> <<>>, free |-> TRUE]
  IN IF value = <<>> THEN [i |-> i, ins |-> <<>>, free |-> FALSE]
     ELSE IF ~ListContainsCI(kNumericalSearchColumns, field) THEN Free
     ELSE IF ListContainsCI(kIntSearchColumns, field)
     THEN (IF ToInt(value).ok THEN Insert(IntVariant(ToInt(value).v)) ELSE Free)
     ELSE IF ListContainsCI(kUIntSearchColumns, field)
     THEN (IF ToUInt(value).ok THEN Insert(UIntVariant(ToUInt(value).v)) ELSE Free)
     ELSE IF ToLower(field) = <<"l", "e", "n", "g", "t", "h">>
     THEN Insert(LongLongVariant(SecondsToNsec(ParseSearchTime(value))))
     ELSE IF ToLower(field) = <<"r", "a", "t", "i", "n", "g">>
     THEN [i |-> i,
           ins |-> <<FilterData(field, FloatVariant(ParseSearchRating(value)), foperator)>>,
           free |-> TRUE]
     ELSE Free

ParseToken(tokens, i) ==
  IF StrContains(tokens[i], <<":">>) THEN ColonToken(tokens, i)
  ELSE IF OperatorRegexMatch(tokens[i]) # <<>> THEN OperatorToken(tokens, i)
  ELSE [i |-> i, ins |-> <<>>, free |-> TRUE]

\* QMap<QString, FilterData>::insert: the value of an existing key is
\* replaced.  The map is a function from its keys.
MapInsert(map, key, value) == (key :> value) @@ map

EmptyMap == <<>>

\* The token loop of filterAcceptsRow from index i on:
\* [filterdata_list, filter] when it ends.
RECURSIVE ParseTokens(_, _, _, _)
ParseTokens(tokens, i, filterdata_list, filter) ==
  IF i > Len(tokens)
  THEN [filterdata_list |-> filterdata_list, filter |-> filter]
  ELSE LET step == ParseToken(tokens, i)
           list == IF step.ins = <<>> THEN filterdata_list
                   ELSE MapInsert(filterdata_list, step.ins[1].field, step.ins[1])
           text == IF ~step.free THEN filter
                   ELSE IF filter # <<>> THEN filter \o <<" ">> \o tokens[i]
                   ELSE tokens[i]
       IN ParseTokens(tokens, step.i + 1, list, text)

\* The operator whitespace normalisation of filterAcceptsRow, in the order
\* of the source.
NormalizeOperators(filter) ==
  LET r1 == ReplaceAroundOp(filter, <<":">>)
      r2 == ReplaceAroundOp(r1, <<"=">>)
      r3 == ReplaceAroundOp(r2, <<"=", "=">>)
      r4 == ReplaceAroundOp(r3, <<"<", ">">>)
      r5 == ReplaceAroundOp(r4, <<"<">>)
      r6 == ReplaceAroundOp(r5, <<">">>)
      r7 == ReplaceAroundOp(r6, <<"<", "=">>)
  IN ReplaceAroundOp(r7, <<">", "=">>)

\* filterRegularExpression().pattern().remove('\\'), normalised and split.
FilterTokens(pattern) ==
  SplitWhitespace(NormalizeOperators(StrRemove(pattern, <<"\\">>)))

\* The parse of a non-empty filter pattern.
ParseFilter(pattern) == ParseTokens(FilterTokens(pattern), 1, EmptyMap, <<>>)

(***************************************************************************)
(* Song: the metadata of one track.  Text fields are QStrings; length is    *)
(* in nanoseconds, playcount and skipcount are unsigned, both held as       *)
(* <<q, r>> pairs; rating is in tenths, -10 (that is -1) when unrated.      *)
(***************************************************************************)

DefaultSong ==
  [valid |-> FALSE, id |-> -1, compilation |-> FALSE,
   artist |-> <<>>, albumartist |-> <<>>, album |-> <<>>, title |-> <<>>,
   composer |-> <<>>, performer |-> <<>>, grouping |-> <<>>, genre |-> <<>>,
   comment |-> <<>>, filetype |-> <<>>,
   track |-> -1, disc |-> -1, year |-> -1, originalyear |-> -1,
   length |-> <<-1, 999999999>>, samplerate |-> -1, bitdepth |-> -1,
   bitrate |-> -1, rating |-> -10, playcount |-> <<0, 0>>, skipcount |-> <<0, 0>>]

\* Song::effective_albumartist
EffectiveAlbumArtist(metadata) ==
  IF metadata.albumartist = <<>> /\ ~metadata.compilation
  THEN metadata.artist
  ELSE metadata.albumartist

(***************************************************************************)
(* CollectionFilter: the evaluator                                         *)
(***************************************************************************)

\* CollectionFilter::DataFromField
DataFromField(field, metadata) ==
  IF field = <<"a", "l", "b", "u", "m", "a", "r", "t", "i", "s", "t">> THEN StringVariant(EffectiveAlbumArtist(metadata))
  ELSE IF field = <<"a", "r", "t", "i", "s", "t">> THEN StringVariant(metadata.artist)
  ELSE IF field = <<"a", "l", "b", "u", "m">> THEN StringVariant(metadata.album)
  ELSE IF field = <<"t", "i", "t", "l", "e">> THEN StringVariant(metadata.title)
  ELSE IF field = <<"c", "o", "m", "p", "o", "s", "e", "r">> THEN StringVariant(metadata.composer)
  ELSE IF field = <<"p", "e", "r", "f", "o", "r", "m", "e", "r">> THEN StringVariant(metadata.performer)
  ELSE IF field = <<"g", "r", "o", "u", "p", "i", "n", "g">> THEN StringVariant(metadata.grouping)
  ELSE IF field = <<"g", "e", "n", "r", "e">> THEN StringVariant(metadata.genre)
  ELSE IF field = <<"c", "o", "m", "m", "e", "n", "t">> THEN StringVariant(metadata.comment)
  ELSE IF field = <<"t", "r", "a", "c", "k">> THEN IntVariant(metadata.track)
  ELSE IF field = <<"y", "e", "a", "r">> THEN IntVariant(metadata.year)
  ELSE IF field = <<"l", "e", "n", "g", "t", "h">> THEN LongLongVariant(metadata.length)
  ELSE IF field = <<"s", "a", "m", "p", "l", "e", "r", "a", "t", "e">> THEN IntVariant(metadata.samplerate)
  ELSE IF field = <<"b", "i", "t", "d", "e", "p", "t", "h">> THEN IntVariant(metadata.bitdepth)
  ELSE IF field = <<"b", "i", "t", "r", "a", "t", "e">> THEN IntVariant(metadata.bitrate)
  ELSE IF field = <<"r", "a", "t", "i", "n", "g">> THEN FloatVariant(metadata.rating)
  ELSE IF field = <<"p", "l", "a", "y", "c", "o", "u", "n", "t">> THEN UIntVariant(metadata.playcount)
  ELSE IF field = <<"s", "k", "i", "p", "c", "o", "u", "n", "t">> THEN UIntVariant(metadata.skipcount)
  ELSE InvalidVariant

\* The order of T: of two ints (or tenths), or of two <<q, r>> pairs.
TypedLess(wide, a, b) == IF wide THEN WideLess(a, b) ELSE a < b

\* CollectionFilter::FieldNumericalValueMatchesData<T>; wide tells the T of
\* the instantiation.
FieldNumericalValueMatchesData(value, foperator, data, wide) ==
  IF foperator = <<"=">> \/ foperator = <<"=", "=">> THEN data = value
  ELSE IF foperator = <<"!", "=">> \/ foperator = <<"<", ">">> THEN data # value
  ELSE IF foperator = <<"<">> THEN TypedLess(wide, data, value)
  ELSE IF foperator = <<">">> THEN TypedLess(wide, value, data)
  ELSE IF foperator = <<">", "=">> THEN ~TypedLess(wide, data, value)
  ELSE IF foperator = <<"<", "=">> THEN ~TypedLess(wide, value, data)
  ELSE FALSE

\* FieldValueMatchesData with a case-sensitive string comparison.
FieldValueMatchesDataCaseSensitive(value, data, foperator) ==
  IF value.t = "QString" THEN StrContains(data.v, value.v)
  ELSE IF value.t \in {"Int", "Float"}
  THEN FieldNumericalValueMatchesData(value.v, foperator, data.v, FALSE)
  ELSE IF value.t \in {"UInt", "LongLong"}
  THEN FieldNumericalValueMatchesData(value.v, foperator, data.v, TRUE)
  ELSE FALSE

\* CollectionFilter::FieldValueMatchesData
FieldValueMatchesData(value, data, foperator) ==
  IF value.t = "QString" THEN StrContainsCI(data.v, value.v)
  ELSE IF value.t \in {"Int", "Float"}
  THEN FieldNumericalValueMatchesData(value.v, foperator, data.v, FALSE)
  ELSE IF value.t \in {"UInt", "LongLong"}
  THEN FieldNumericalValueMatchesData(value.v, foperator, data.v, TRUE)
  ELSE FALSE

\* ItemMetadataMatches without the test of the field against the fields of
\* the grouping.
ItemMetadataMatchesAnyField(metadata, filterdata_list, fields) ==
  \A field \in DOMAIN filterdata_list :
    LET filter_data == filterdata_list[field]
        data == DataFromField(field, metadata)
    IN \/ field = <<>>
       \/ filter_data.value.t = "Invalid"
       \/ /\ filter_data.value.t = data.t
          /\ FieldValueMatchesData(filter_data.value, data, filter_data.foperator)

\* CollectionFilter::ItemMetadataMatches; fields is empty for a Song node.
ItemMetadataMatches(metadata, filterdata_list, fields) ==
  \A field \in DOMAIN filterdata_list :
    LET filter_data == filterdata_list[field]
        data == DataFromField(field, metadata)
    IN \/ field = <<>>
       \/ filter_data.value.t = "Invalid"
       \/ /\ (fields = <<>> \/ ListContains(fields, field))
          /\ filter_data.value.t = data.t
          /\ FieldValueMatchesData(filter_data.value, data, filter_data.foperator)

\* CollectionFilter::FieldsFromGroupBy
FieldsFromGroupBy(group_by) ==
  CASE group_by = "AlbumArtist" -> << <<"a", "l", "b", "u", "m", "a", "r", "t", "i", "s", "t">> >>
    [] group_by = "Artist" -> << <<"a", "r", "t", "i", "s", "t">> >>
    [] group_by = "Album" -> << <<"a", "l", "b", "u", "m">> >>
    [] group_by = "AlbumDisc" -> << <<"a", "l", "b", "u", "m">>, <<"d", "i", "s", "c">> >>
    [] group_by = "YearAlbum" -> << <<"y", "e", "a", "r">>, <<"a", "l", "b", "u", "m">> >>
    [] group_by = "YearAlbumDisc" -> << <<"y", "e", "a", "r">>, <<"a", "l", "b", "u", "m">>, <<"d", "i", "s", "c">> >>
    [] group_by = "OriginalYearAlbum" -> << <<"o", "r", "i", "g", "i", "n", "a", "l", "y", "e", "a", "r">>, <<"a", "l", "b", "u", "m">> >>
    [] group_by = "OriginalYearAlbumDisc" -> << <<"o", "r", "i", "g", "i", "n", "a", "l", "y", "e", "a", "r">>, <<"a", "l", "b", "u", "m">>, <<"d", "i", "s", "c">> >>
    [] group_by = "Disc" -> << <<"d", "i", "s", "c">> >>
    [] group_by = "Year" -> << <<"y", "e", "a", "r">> >>
    [] group_by = "OriginalYear" -> << <<"o", "r", "i", "g", "i", "n", "a", "l", "y", "e", "a", "r">> >>
    [] group_by = "Genre" -> << <<"g", "e", "n", "r", "e">> >>
    [] group_by = "Composer" -> << <<"c", "o", "m", "p", "o", "s", "e", "r">> >>
    [] group_by = "Performer" -> << <<"p", "e", "r", "f", "o", "r", "m", "e", "r">> >>
    [] group_by = "Grouping" -> << <<"g", "r", "o", "u", "p", "i", "n", "g">> >>
    [] group_by = "FileType" -> << <<"f", "i", "l", "e", "t", "y", "p", "e">> >>
    [] group_by = "Format" -> << <<"f", "o", "r", "m", "a", "t">> >>
    [] group_by = "Bitdepth" -> << <<"b", "i", "t", "d", "e", "p", "t", "h">> >>
    [] group_by = "Samplerate" -> << <<"s", "a", "m", "p", "l", "e", "r", "a", "t", "e">> >>
    [] group_by = "Bitrate" -> << <<"b", "i", "t", "r", "a", "t", "e">> >>
    [] OTHER -> <<>>

(***************************************************************************)
(* CollectionModel: the tree.  A CollectionItem pointer is the handle       *)
(* [type, level, key] of the item; an item holds its display text, its      *)
(* metadata, its parent and its children.  A tree state is the record of    *)
(* the items and of the cache maps.                                         *)
(***************************************************************************)

\* CollectionModel::GroupBy
GroupByValues ==
  {"None", "AlbumArtist", "Artist", "Album", "AlbumDisc", "YearAlbum",
   "YearAlbumDisc", "OriginalYearAlbum", "OriginalYearAlbumDisc", "Disc",
   "Year", "OriginalYear", "Genre", "Composer", "Performer", "Grouping",
   "FileType", "Format", "Samplerate", "Bitdepth", "Bitrate"}

\* CollectionModel::IsArtistGroupBy
IsArtistGroupBy(group_by) == group_by \in {"Artist", "AlbumArtist"}

\* CollectionModel::IsAlbumGroupBy
IsAlbumGroupBy(group_by) ==
  group_by \in {"Album", "YearAlbum", "AlbumDisc", "YearAlbumDisc",
                "OriginalYearAlbum", "OriginalYearAlbumDisc"}

show_dividers_ == TRUE

show_various_artists_ == TRUE

separate_albums_by_grouping_ == FALSE

Handle(type, level, key) == [type |-> type, level |-> level, key |-> key]

NoItem == Handle("None", -1, <<>>)

root_ == Handle("Root", -1, <<>>)

RECURSIVE IntToText(_)
IntToText(n) ==
  IF n < 0 THEN <<"-">> \o IntToText(0 - n)
  ELSE IF n < 10 THEN <<Digits[n + 1]>>
  ELSE IntToText(n \div 10) \o <<Digits[(n % 10) + 1]>>

\* The fields of a Song that a grouping dimension groups by.
DimensionFields(group_by) ==
  CASE group_by = "AlbumArtist" -> <<"albumartist">>
    [] group_by = "Artist" -> <<"artist">>
    [] group_by = "Album" -> <<"album">>
    [] group_by = "AlbumDisc" -> <<"album", "disc">>
    [] group_by = "YearAlbum" -> <<"year", "album">>
    [] group_by = "YearAlbumDisc" -> <<"year", "album", "disc">>
    [] group_by = "OriginalYearAlbum" -> <<"originalyear", "album">>
    [] group_by = "OriginalYearAlbumDisc" -> <<"originalyear", "album", "disc">>
    [] group_by = "Disc" -> <<"disc">>
    [] group_by = "Year" -> <<"year">>
    [] group_by = "OriginalYear" -> <<"originalyear">>
    [] group_by = "Genre" -> <<"genre">>
    [] group_by = "Composer" -> <<"composer">>
    [] group_by = "Performer" -> <<"performer">>
    [] group_by = "Grouping" -> <<"grouping">>
    [] group_by = "FileType" -> <<"filetype">>
    [] group_by = "Format" -> <<"filetype">>
    [] group_by = "Samplerate" -> <<"samplerate">>
    [] group_by = "Bitdepth" -> <<"bitdepth">>
    [] group_by = "Bitrate" -> <<"bitrate">>
    [] OTHER -> <<>>

NumberFields ==
  {"disc", "year", "originalyear", "samplerate", "bitdepth", "bitrate"}

\* The value of a grouping field of a song, and its text in a key.
FieldValue(song, f) ==
  IF f = "albumartist" THEN EffectiveAlbumArtist(song) ELSE song[f]

FieldText(song, f) ==
  IF f \in NumberFields
  THEN IntToText(IF song[f] < 0 THEN 0 ELSE song[f])
  ELSE FieldValue(song, f)

RECURSIVE JoinWith(_, _)
JoinWith(list, sep) ==
  IF list = <<>> THEN <<>>
  ELSE IF Len(list) = 1 THEN list[1]
  ELSE list[1] \o sep \o JoinWith(Tail(list), sep)

\* CollectionModel::ContainerKey
ContainerKey(group_by, separate_albums_by_grouping, song) ==
  LET fields == DimensionFields(group_by)
      key == JoinWith([i \in 1..Len(fields) |-> FieldText(song, fields[i])], <<"-">>)
  IN IF IsAlbumGroupBy(group_by) /\ separate_albums_by_grouping
        /\ song.grouping # <<>>
     THEN key \o <<"-">> \o song.grouping
     ELSE key

\* CollectionModel::TextOrUnknown
TextOrUnknown(text) == IF text = <<>> THEN <<"U", "n", "k", "n", "o", "w", "n">> ELSE text

\* The display text of a container: the pretty text of its key.
ContainerDisplayText(group_by, song) ==
  LET fields == DimensionFields(group_by)
  IN JoinWith([i \in 1..Len(fields) |->
                 IF fields[i] \in NumberFields THEN FieldText(song, fields[i])
                 ELSE TextOrUnknown(FieldText(song, fields[i]))], <<" ", "-", " ">>)

\* The record a container holds: the grouping fields of its dimension.
ContainerMetadata(group_by, song) ==
  LET fields == DimensionFields(group_by)
      of == {fields[i] : i \in 1..Len(fields)}
  IN [f \in DOMAIN DefaultSong |->
        IF f \in of THEN FieldValue(song, f) ELSE DefaultSong[f]]

\* CollectionModel::DividerKey: a letter for a text dimension, a decade for
\* a year dimension, empty (no divider) otherwise.
DividerKey(group_by, song) ==
  IF group_by \in {"AlbumArtist", "Artist", "Album", "AlbumDisc", "Composer",
                   "Performer", "Grouping", "Genre"}
  THEN ToLower(SubSeq(FieldText(song, DimensionFields(group_by)[1]), 1, 1))
  ELSE IF group_by \in {"Year", "OriginalYear", "YearAlbum", "YearAlbumDisc",
                        "OriginalYearAlbum", "OriginalYearAlbumDisc"}
  THEN LET year == song[DimensionFields(group_by)[1]]
       IN IntToText(((IF year < 0 THEN 0 ELSE year) \div 10) * 10)
  ELSE <<>>

\* CollectionModel::DividerDisplayText
DividerDisplayText(group_by, key) == key

Item(display_text, metadata, parent) ==
  [display_text |-> display_text, metadata |-> metadata, parent |-> parent,
   children |-> {}]

EmptyTree ==
  [nodes |-> (root_ :> Item(<<>>, DefaultSong, NoItem)),
   song_nodes_ |-> EmptyMap,
   container_nodes_ |-> <<EmptyMap, EmptyMap, EmptyMap>>,
   divider_nodes_ |-> EmptyMap,
   compilation_artist_node_ |-> NoItem]

\* A new item under parent (SimpleTreeItem's constructor appends it to the
\* parent's children).
InsertItem(nodes, item, display_text, metadata, parent) ==
  (item :> Item(display_text, metadata, parent))
  @@ [nodes EXCEPT ![parent].children = @ \cup {item}]

\* SimpleTreeItem::Delete: the item leaves its parent's children and is
\* destroyed.
DeleteItem(nodes, item) ==
  LET parent == nodes[item].parent
      kept == [n \in DOMAIN nodes \ {item} |-> nodes[n]]
  IN [kept EXCEPT ![parent].children = @ \ {item}]

\* QMap::remove
MapRemove(map, key) ==
  IF DOMAIN map \ {key} = {} THEN EmptyMap
  ELSE [k \in DOMAIN map \ {key} |-> map[k]]


kVariousArtistsKey == <<"*", "v", "a", "r", "i", "o", "u", "s", "*">>

\* Whether a song is attached under the compilation artist node at level 0.
IsCompilationSong(group_by, song) ==
  IsArtistGroupBy(group_by[1]) /\ show_various_artists_ /\ song.compilation

\* CollectionModel::CreateCompilationArtistNode: the node is a level 0
\* container under the root, without a record.
CreateCompilationArtistNode(tree) ==
  LET item == Handle("Container", 0, kVariousArtistsKey)
  IN [tree EXCEPT
        !.nodes = InsertItem(@, item, <<"V", "a", "r", "i", "o", "u", "s", " ", "a", "r", "t", "i", "s", "t", "s">>, DefaultSong, root_),
        !.container_nodes_[1] = MapInsert(@, kVariousArtistsKey, item),
        !.compilation_artist_node_ = item]

\* CollectionModel::CreateItem for a container: the container is created
\* under parent, or at level 0 under the divider of its divider key, which
\* is created first when no divider has that key.
CreateItem(tree, group_by, song, level, parent, key) ==
  LET divider_key == IF level = 0 /\ show_dividers_
                     THEN DividerKey(group_by, song) ELSE <<>>
      divider == Handle("Divider", -1, divider_key)
      with_divider ==
        IF divider_key = <<>> \/ divider_key \in DOMAIN tree.divider_nodes_
        THEN tree
        ELSE [tree EXCEPT
                !.nodes = InsertItem(@, divider,
                                     DividerDisplayText(group_by, divider_key),
                                     DefaultSong, root_),
                !.divider_nodes_ = MapInsert(@, divider_key, divider)]
      above == IF divider_key = <<>> THEN parent
               ELSE with_divider.divider_nodes_[divider_key]
      item == Handle("Container", level, key)
  IN [with_divider EXCEPT
        !.nodes = InsertItem(@, item, ContainerDisplayText(group_by, song),
                             ContainerMetadata(group_by, song), above),
        !.container_nodes_[level + 1] = MapInsert(@, key, item)]

\* The composite key of a container: the key of the container above it and
\* its own key.
CompositeKey(parent, key) ==
  IF parent.type = "Container" THEN parent.key \o <<"|">> \o key ELSE key

\* A song node is a new item each time one is created: its handle is the
\* text of the song's id, marked once for every song node that already
\* has the handle.
RECURSIVE NewSongItem(_, _)
NewSongItem(nodes, key) ==
  IF Handle("Song", -1, key) \in DOMAIN nodes
  THEN NewSongItem(nodes, key \o <<"'">>)
  ELSE Handle("Song", -1, key)

\* The add of one song from level on, under parent: the container of each
\* grouping level is looked up or created, the song node goes under the
\* last one.
RECURSIVE AddSongAt(_, _, _, _, _)
AddSongAt(tree, group_by, song, level, parent) ==
  IF level > 2 \/ group_by[level + 1] = "None"
  THEN LET item == NewSongItem(tree.nodes, IntToText(song.id))
       IN [tree EXCEPT
             !.nodes = InsertItem(@, item, TextOrUnknown(song.title), song, parent),
             !.song_nodes_ = MapInsert(@, song.id, item)]
  ELSE LET compilation == level = 0 /\ IsCompilationSong(group_by, song)
           key == IF compilation THEN kVariousArtistsKey
                  ELSE CompositeKey(parent,
                         ContainerKey(group_by[level + 1],
                                      separate_albums_by_grouping_, song))
           next == IF key \in DOMAIN tree.container_nodes_[level + 1] THEN tree
                   ELSE IF compilation THEN CreateCompilationArtistNode(tree)
                   ELSE CreateItem(tree, group_by[level + 1], song, level, parent, key)
       IN AddSongAt(next, group_by, song, level + 1,
                    next.container_nodes_[level + 1][key])

\* The removal of an empty container or divider that stops there: the item
\* above it stays, empty or not.
PruneEmptyNoCascade(tree, item) ==
  IF /\ item.type \in {"Container", "Divider"}
     /\ tree.nodes[item].children = {}
     /\ item # tree.compilation_artist_node_
  THEN IF item.type = "Divider"
       THEN [tree EXCEPT !.nodes = DeleteItem(@, item),
                         !.divider_nodes_ = MapRemove(@, item.key)]
       ELSE [tree EXCEPT !.nodes = DeleteItem(@, item),
                         !.container_nodes_[item.level + 1] =
                            MapRemove(@, item.key)]
  ELSE tree

\* The removal of the emptied containers and dividers that leaves their
\* entries in the cache maps.
RECURSIVE PruneEmptyKeepCache(_, _)
PruneEmptyKeepCache(tree, item) ==
  IF /\ item.type \in {"Container", "Divider"}
     /\ tree.nodes[item].children = {}
     /\ item # tree.compilation_artist_node_
  THEN PruneEmptyKeepCache([tree EXCEPT !.nodes = DeleteItem(@, item)],
                           tree.nodes[item].parent)
  ELSE tree

\* Removes item and then every container or divider above it left without
\* children, up to the first one that keeps children, the root, or the
\* compilation artist node.
RECURSIVE PruneEmpty(_, _)
PruneEmpty(tree, item) ==
  IF /\ item.type \in {"Container", "Divider"}
     /\ tree.nodes[item].children = {}
     /\ item # tree.compilation_artist_node_
  THEN LET parent == tree.nodes[item].parent
           pruned ==
             IF item.type = "Divider"
             THEN [tree EXCEPT !.nodes = DeleteItem(@, item),
                               !.divider_nodes_ = MapRemove(@, item.key)]
             ELSE [tree EXCEPT !.nodes = DeleteItem(@, item),
                               !.container_nodes_[item.level + 1] =
                                  MapRemove(@, item.key)]
       IN PruneEmpty(pruned, parent)
  ELSE tree

\* The remove of one song that leaves the containers above it as they are.
RemoveSongNoPrune(tree, song) ==
  IF song.id \notin DOMAIN tree.song_nodes_ THEN tree
  ELSE [tree EXCEPT !.nodes = DeleteItem(@, tree.song_nodes_[song.id]),
                    !.song_nodes_ = MapRemove(@, song.id)]

\* The remove of one song: a song that has no node is skipped.
RemoveSong(tree, song) ==
  IF song.id \notin DOMAIN tree.song_nodes_ THEN tree
  ELSE LET item == tree.song_nodes_[song.id]
           parent == tree.nodes[item].parent
       IN PruneEmpty([tree EXCEPT !.nodes = DeleteItem(@, item),
                                  !.song_nodes_ = MapRemove(@, song.id)],
                     parent)

\* The keys of the containers a song belongs under, level by level.
GroupKeys(group_by, song) ==
  [i \in 1..3 |->
     IF group_by[i] = "None" THEN <<>>
     ELSE IF i = 1 /\ IsCompilationSong(group_by, song) THEN kVariousArtistsKey
     ELSE ContainerKey(group_by[i], separate_albums_by_grouping_, song)]

\* The update of one song that has a node: in place when its group keys
\* are unchanged, a remove and an add otherwise.
UpdateSong(tree, group_by, song) ==
  LET item == tree.song_nodes_[song.id]
      old == tree.nodes[item].metadata
  IN IF GroupKeys(group_by, old) = GroupKeys(group_by, song)
     THEN [tree EXCEPT !.nodes[item].metadata = song,
                       !.nodes[item].display_text = TextOrUnknown(song.title)]
     ELSE AddSongAt(RemoveSong(tree, old), group_by, song, 0, root_)

\* The song of a batch that is applied first.
FirstSong(songs) == CHOOSE s \in songs : \A o \in songs : s.id <= o.id

\* CollectionModel::AddSongsInternal
RECURSIVE AddSongsInternal(_, _, _)
AddSongsInternal(tree, group_by, songs) ==
  IF songs = {} THEN tree
  ELSE LET song == FirstSong(songs)
       IN AddSongsInternal(AddSongAt(tree, group_by, song, 0, root_), group_by,
                           songs \ {song})

\* CollectionModel::UpdateSongsInternal
RECURSIVE UpdateSongsInternal(_, _, _)
UpdateSongsInternal(tree, group_by, songs) ==
  IF songs = {} THEN tree
  ELSE LET song == FirstSong(songs)
       IN UpdateSongsInternal(UpdateSong(tree, group_by, song), group_by,
                              songs \ {song})

\* CollectionModel::RemoveSongsInternal
RECURSIVE RemoveSongsInternal(_, _)
RemoveSongsInternal(tree, songs) ==
  IF songs = {} THEN tree
  ELSE LET song == FirstSong(songs)
       IN RemoveSongsInternal(RemoveSong(tree, song), songs \ {song})

\* AddReAddOrUpdateSongsInternal without the look-up of the songs that
\* have a node: every valid song is added.
AddEverySongInternal(tree, group_by, songs) ==
  AddSongsInternal(tree, group_by, {s \in songs : s.valid})

\* CollectionModel::AddReAddOrUpdateSongsInternal: invalid songs are
\* skipped, songs that have a node are updated, the others are added.
AddReAddOrUpdateSongsInternal(tree, group_by, songs) ==
  LET valid == {s \in songs : s.valid}
      present == {s \in valid : s.id \in DOMAIN tree.song_nodes_}
  IN AddSongsInternal(UpdateSongsInternal(tree, group_by, present), group_by,
                      valid \ present)

\* The songs the tree holds.
TreeSongs(tree) ==
  {tree.nodes[tree.song_nodes_[id]].metadata : id \in DOMAIN tree.song_nodes_}

\* CollectionModel::Reset: every node is discarded and the tree is built
\* again from the songs of the collection.
ResetTree(tree, group_by) == AddSongsInternal(EmptyTree, group_by, TreeSongs(tree))


(***************************************************************************)
(* CollectionFilter::filterAcceptsRow on a tree                            *)
(***************************************************************************)

\* CollectionFilter::ItemMatchesFilter
ItemMatchesFilter(tree, group_by, item, filterdata_list, filter) ==
  /\ \/ filter = <<>>
     \/ StrContainsCI(tree.nodes[item].display_text, filter)
  /\ \/ DOMAIN filterdata_list = {}
     \/ /\ item.type = "Song"
        /\ tree.nodes[item].metadata.valid
        /\ ItemMetadataMatches(tree.nodes[item].metadata, filterdata_list, <<>>)
     \/ /\ item.type = "Container"
        /\ item.level >= 0
        /\ item.level <= 2
        /\ ItemMetadataMatches(tree.nodes[item].metadata, filterdata_list,
                               FieldsFromGroupBy(group_by[item.level + 1]))

\* ChildrenMatches without its recursion: only the children are looked at.
ChildrenMatchesNoRecursion(tree, group_by, item, filterdata_list, filter) ==
  \E child \in tree.nodes[item].children :
    ItemMatchesFilter(tree, group_by, child, filterdata_list, filter)

\* CollectionFilter::ChildrenMatches
RECURSIVE ChildrenMatches(_, _, _, _, _)
ChildrenMatches(tree, group_by, item, filterdata_list, filter) ==
  \E child \in tree.nodes[item].children :
    \/ ItemMatchesFilter(tree, group_by, child, filterdata_list, filter)
    \/ ChildrenMatches(tree, group_by, child, filterdata_list, filter)

\* The parent loop that ends after the item and the item above it.
ParentMatchesOneStep(tree, group_by, parent, filterdata_list, filter) ==
  /\ parent # NoItem
  /\ parent.type # "Root"
  /\ \/ ItemMatchesFilter(tree, group_by, parent, filterdata_list, filter)
     \/ /\ tree.nodes[parent].parent # NoItem
        /\ tree.nodes[parent].parent.type # "Root"
        /\ ItemMatchesFilter(tree, group_by, tree.nodes[parent].parent,
                             filterdata_list, filter)

\* The parent loop of filterAcceptsRow, from parent up to the root.
RECURSIVE ParentMatches(_, _, _, _, _)
ParentMatches(tree, group_by, parent, filterdata_list, filter) ==
  /\ parent # NoItem
  /\ parent.type # "Root"
  /\ \/ ItemMatchesFilter(tree, group_by, parent, filterdata_list, filter)
     \/ ParentMatches(tree, group_by, tree.nodes[parent].parent,
                      filterdata_list, filter)

\* CollectionFilter::filterAcceptsRow for the row of item.
FilterAcceptsItem(tree, group_by, filter_pattern, item) ==
  IF item.type = "LoadingIndicator" THEN TRUE
  ELSE IF StrRemove(filter_pattern, <<"\\">>) = <<>> THEN TRUE
  ELSE \E parsed \in {ParseFilter(filter_pattern)} :
         \/ ItemMatchesFilter(tree, group_by, item, parsed.filterdata_list,
                              parsed.filter)
         \/ ParentMatches(tree, group_by, item, parsed.filterdata_list,
                          parsed.filter)
         \/ ChildrenMatches(tree, group_by, item, parsed.filterdata_list,
                            parsed.filter)

(***************************************************************************)
(* The songs, groupings and filter patterns of the model                   *)
(***************************************************************************)

MakeSong(id, artist, album, title, year) ==
  [DefaultSong EXCEPT !.valid = TRUE, !.id = id, !.artist = artist,
                      !.album = album, !.title = title, !.year = year,
                      !.length = <<180, 0>>]

Song1 ==
  [MakeSong(1, <<"T", "h", "e", " ", "B", "e", "a", "t", "l", "e", "s">>, <<"H", "e", "l", "p">>, <<"S", "o", "m", "e", " ", "S", "o", "n", "g">>, 1965) EXCEPT
     !.length = <<210, 0>>, !.rating = 8, !.playcount = <<0, 3>>]
Song2 == MakeSong(2, <<"T", "h", "e", " ", "B", "e", "a", "t", "l", "e", "s">>, <<"H", "e", "l", "p">>, <<"S", "o", "m", "e", " ", "O", "t", "h", "e", "r", " ", "S", "o", "n", "g">>, 1965)
Song3 ==
  [MakeSong(3, <<"T", "h", "e", " ", "B", "e", "a", "t", "l", "e", "s">>, <<"H", "e", "l", "p">>, <<"Y", "e", "s", "t", "e", "r", "d", "a", "y">>, 1975) EXCEPT
     !.length = <<211, 0>>]
Song4 == MakeSong(4, <<"T", "h", "e", " ", "B", "e", "a", "t", "l", "e", "s">>, <<"A", "b", "b", "e", "y", " ", "R", "o", "a", "d">>, <<"S", "o", "m", "e", "t", "h", "i", "n", "g">>, 1969)
Song5 == MakeSong(5, <<"T", "h", "e", " ", "B", "e", "a", "t", "l", "e", "s">>, <<"A", "b", "b", "e", "y", " ", "R", "o", "a", "d">>, <<"B", "e", "c", "a", "u", "s", "e">>, 1969)
Song6 == MakeSong(6, <<"S", "t", "o", "n", "e", "s">>, <<"A", "f", "t", "e", "r", "m", "a", "t", "h">>, <<"S", "o", "n", "g", " ", "O", "f", " ", "S", "o", "m", "e">>, 0)
Song7 == MakeSong(7, <<"A", "b", "b", "a">>, <<"A", "r", "r", "i", "v", "a", "l">>, <<"T", "i", "g", "e", "r">>, 1985)
Song8 ==
  [MakeSong(8, <<"Y", "e", "s">>, <<"H", "i", "t", "s">>, <<"B", "e", "a", "t", "l", "e", "s", " ", "M", "e", "d", "l", "e", "y">>, 1980) EXCEPT
     !.compilation = TRUE]
\* Song 1 again after a retag: under another album, and with another title.
Song1Moved == [Song1 EXCEPT !.album = <<"A", "b", "b", "e", "y", " ", "R", "o", "a", "d">>]
Song1Renamed == [Song1 EXCEPT !.title = <<"H", "e", "l", "p", " ", "M", "e">>]
\* A record that is not valid.
Song9 == [MakeSong(9, <<"A", "b", "b", "a">>, <<"A", "r", "r", "i", "v", "a", "l">>, <<"B", "r", "o", "k", "e", "n">>, 1976) EXCEPT !.valid = FALSE]

\* The collection a model is loaded with in FilterSpec.
Library == {Song1, Song2, Song3, Song4, Song5, Song6, Song7, Song8}

\* The songs the backend reports as added, changed or deleted in Spec.
Universe == {Song1, Song1Moved, Song1Renamed, Song4, Song6, Song8, Song9}

MaxBatch == 2

\* A SongList of a backend signal: songs of distinct ids.
Batches ==
  {b \in SUBSET Universe :
     /\ b # {}
     /\ Cardinality(b) <= MaxBatch
     /\ \A s, t \in b : s.id = t.id => s = t}

Groupings ==
  {<<"Artist", "Album", "None">>, <<"YearAlbum", "None", "None">>,
   <<"None", "None", "None">>}

\* The tokens filter patterns are made of.
Tokens ==
  << <<"a", "r", "t", "i", "s", "t", ":", "b", "e", "a", "t", "l", "e", "s">>, <<"A", "r", "t", "i", "s", "t", ":", "b", "e", "a", "t", "l", "e", "s">>, <<"y", "e", "a", "r", ">", "=", "1", "9", "7", "0">>, <<"y", "e", "a", "r", "<", "1", "9", "8", "0">>,
     <<"t", "i", "t", "l", "e", ":", "\"", "s", "o", "m", "e">>, <<"s", "o", "n", "g", "\"">> >>

MaxTokens == 2

RECURSIVE TokenLists(_)
TokenLists(n) ==
  IF n = 0 THEN {<<>>}
  ELSE LET shorter == TokenLists(n - 1)
       IN shorter \cup {Append(l, t) : l \in {s \in shorter : Len(s) = n - 1},
                                       t \in 1..Len(Tokens)}

\* A filter pattern of at most MaxTokens tokens, separated by one space.
TokenPatterns ==
  {JoinSpace([i \in 1..Len(l) |-> Tokens[l[i]]]) : l \in TokenLists(MaxTokens)}

\* Filter patterns a user types, beyond those of TokenPatterns.
TypedPatterns ==
  { <<"l", "e", "n", "g", "t", "h", ":", "3", ":", "3", "0">>, <<"l", "e", "n", "g", "t", "h", ">", "3", ":", "3", "0">>, <<"l", "e", "n", "g", "t", "h", ">", "2", "1", "0">>, <<"l", "e", "n", "g", "t", "h", "=", "3">>,
    <<"l", "e", "n", "g", "t", "h", ">", "x">>, <<"r", "a", "t", "i", "n", "g", ">", "=", "4">>, <<"r", "a", "t", "i", "n", "g", "=", "x">>, <<"p", "l", "a", "y", "c", "o", "u", "n", "t", ">", "2">>, <<"p", "l", "a", "y", "c", "o", "u", "n", "t", ">", "-", "1">>,
    <<"s", "k", "i", "p", "c", "o", "u", "n", "t", "<", "1", " ", "h", "e", "l", "p">>, <<"y", "e", "a", "r", ">", "a", "b", "c">>, <<"Y", "E", "A", "R", ">", "1", "9", "7", "0">>, <<"y", "e", "a", "r", ">", "1", "9", "7", "0">>,
    <<"y", "e", "a", "r", " ", "=", "=", " ", "1", "9", "6", "5">>, <<"y", "e", "a", "r", "<", ">", "1", "9", "6", "5">>, <<"y", "e", "a", "r", "!", "=", "1", "9", "6", "5">>, <<"y", "e", "a", "r", " ", "<", "=", " ", "1", "9", "6", "9">>,
    <<"t", "i", "t", "l", "e", ":">>, <<":", "h", "e", "l", "p">>, <<"y", "e", "a", "r", ">">>, <<"f", "o", "o", ":", "b", "a", "r">>, <<"f", "o", "o", ">", "1">>, <<"t", "r", "a", "c", "k", "=", "1", " ", "x">>,
    <<"a", "r", "t", "i", "s", "t", " ", ":", " ", "t", "h", "e", " ", " ", "b", "e", "a", "t", "l", "e", "s">>, <<"a", "r", "t", "i", "s", "t", ":", "t", "h", "e", " ", "b", "e", "a", "t", "l", "e", "s", " ", "y", "e", "a", "r", "<", "1", "9", "7", "0">>,
    <<"a", "r", "t", "i", "s", "t", ":", "\"", "t", "h", "e", " ", "b", "e", "a", "t", "l", "e", "s", "\"", " ", "h", "e", "l", "p">>, <<"t", "i", "t", "l", "e", ":", "\"", "s", "o", "m", "e", " ", "s", "o", "n", "g", "\"", " ", "a", "r", "t", "i", "s", "t", ":", "b", "e", "a", "t", "l", "e", "s">>,
    <<"t", "i", "t", "l", "e", ":", "\"", "o", "f", " ", "s", "o", "m", "e", " ", "y", "e", "a", "r", "=", "0", " ", "x", "\"", " ", "s", "o", "n", "g">>, <<"a", "r", "t", "i", "s", "t", "\\", ":", "b", "e", "a", "t", "l", "e", "s">>,
    <<"a", "r", "t", "i", "s", "t", ":", "S", "t", "o", "n", "e", "s", " ", "A", "r", "t", "i", "s", "t", ":", "b", "e", "a", "t", "l", "e", "s">>, <<"a", "r", "t", "i", "s", "t", ":", "a", "b", "b", "a", " ", "a", "r", "t", "i", "s", "t", ":", "s", "t", "o", "n", "e", "s">>,
    <<"t", "i", "t", "l", "e", ":", "\"", "\"", " ", "x">>, <<"t", "i", "t", "l", "e", ":", "\"", "a", "\"", "b", "\"", "c">>, <<"\\">>, <<" ", " ">> }

\* Filter patterns of free text, of one predicate, and with phrases: a
\* predicate value of several tokens.
PhrasePatterns ==
  { <<"s", "o", "m", "e">>,
    <<"a", "l", "b", "u", "m", ":", "h", "e", "l", "p">>,
    <<"a", "r", "t", "i", "s", "t", ":", "b", "e", "a", "t", "l", "e", "s", " ", "s", "o", "m", "e">>,
    <<"a", "l", "b", "u", "m", ":", "h", "e", "l", "p", " ", "y", "e", "a", "r", "<", "1", "9", "8", "0">>,
    <<"s", "o", "m", "e", " ", "a", "l", "b", "u", "m", ":", "h", "e", "l", "p">>,
    <<"a", "l", "b", "u", "m", ":", "a", "b", "b", "e", "y", " ", "r", "o", "a", "d", " ", "t", "i", "t", "l", "e", ":", "\"", "o", "f", " ", "y", "e", "a", "r", "=", "0", " ", "x", "\"", " ", "y">>,
    <<"a", "r", "t", "i", "s", "t", ":", "t", "h", "e", " ", "b", "e", "a", "t", "l", "e", "s", " ", "h", "e", "l", "p">>,
    <<"t", "i", "t", "l", "e", ":", "\"", "s", "o", "m", "e", " ", "y", "e", "a", "r", "<", "1", " ", "s", "o", "n", "g">>,
    <<"g", "e", "n", "r", "e", ":", "a", " ", "b", " ", "c", "=", "d", " ", "e">> }

FilterPatterns == TokenPatterns \cup TypedPatterns \cup PhrasePatterns

\* The filter patterns of Spec.
TreePatterns ==
  { <<>>, <<"a", "r", "t", "i", "s", "t", ":", "b", "e", "a", "t", "l", "e", "s">>, <<"a", "l", "b", "u", "m", ":", "h", "e", "l", "p">>, <<"y", "e", "a", "r", "<", "1", "9", "7", "0">>, <<"s", "o", "m", "e">>,
    <<"t">>, <<"t", "i", "t", "l", "e", ":", "s", "o", "n", "g", " ", "y", "e", "a", "r", ">", "1", "9", "6", "0">>, <<"A", "r", "t", "i", "s", "t", ":", "y", "e", "s">>, <<"v", "a", "r", "i", "o", "u", "s">> }


(***************************************************************************)
(* The state machine                                                       *)
(***************************************************************************)

VARIABLES
  tree,       \* the items of the CollectionModel and its cache maps
  group_by_,  \* CollectionModel::group_by_
  pattern,    \* the filter pattern of the CollectionFilter
  row,        \* the item of the filterAcceptsRow call to be answered
  accepted    \* what that call returns

vars == <<tree, group_by_, pattern, row, accepted>>

\* After construction: an empty tree under the root, no filter.
Init ==
  /\ tree = EmptyTree
  /\ group_by_ = <<"Artist", "Album", "None">>
  /\ pattern = <<>>
  /\ row = NoItem
  /\ accepted = FALSE

\* The model and the filter live on one thread: a slot runs when no
\* filterAcceptsRow call is waiting to be answered.
Idle == row = NoItem

\* CollectionModel::AddReAddOrUpdate, applied by ProcessUpdate.
AddReAddOrUpdate ==
  \E songs \in Batches :
    /\ Idle
    /\ tree' = AddReAddOrUpdateSongsInternal(tree, group_by_, songs)
    /\ UNCHANGED <<group_by_, pattern, row, accepted>>

\* CollectionModel::RemoveSongs, applied by ProcessUpdate.
RemoveSongs ==
  \E songs \in Batches :
    /\ Idle
    /\ tree' = RemoveSongsInternal(tree, songs)
    /\ UNCHANGED <<group_by_, pattern, row, accepted>>

\* CollectionModel::SetGroupBy: the grouping is set and the model is reset.
SetGroupBy ==
  \E g \in Groupings :
    /\ Idle
    /\ group_by_' = g
    /\ tree' = ResetTree(tree, g)
    /\ UNCHANGED <<pattern, row, accepted>>

\* The filter pattern is set (QSortFilterProxyModel::setFilterRegularExpression).
SetFilterPattern(patterns) ==
  \E p \in patterns :
    /\ Idle
    /\ pattern' = p
    /\ UNCHANGED <<tree, group_by_, row, accepted>>

\* The rows of the source model: every item but the root.
Rows(t) == DOMAIN t.nodes \ {root_}

\* CollectionFilter::filterAcceptsRow, called by the proxy model for a row.
FilterAcceptsRow ==
  \E item \in Rows(tree) :
    /\ Idle
    /\ row' = item
    /\ accepted' = FilterAcceptsItem(tree, group_by_, pattern, item)
    /\ UNCHANGED <<tree, group_by_, pattern>>

\* The proxy model takes the answer of the call.
RowAnswered ==
  /\ ~Idle
  /\ row' = NoItem
  /\ accepted' = FALSE
  /\ UNCHANGED <<tree, group_by_, pattern>>

Next ==
  \/ AddReAddOrUpdate
  \/ RemoveSongs
  \/ SetGroupBy
  \/ SetFilterPattern(TreePatterns)
  \/ FilterAcceptsRow
  \/ RowAnswered

Spec == Init /\ [][Next]_vars

\* A model loaded with the Library under one of the groupings; the filter
\* is typed and the rows are filtered.
FilterInit ==
  /\ group_by_ \in Groupings
  /\ tree = AddSongsInternal(EmptyTree, group_by_, Library)
  /\ pattern = <<>>
  /\ row = NoItem
  /\ accepted = FALSE

FilterNext ==
  \/ SetFilterPattern(FilterPatterns)
  \/ FilterAcceptsRow
  \/ RowAnswered

FilterSpec == FilterInit /\ [][FilterNext]_vars


(***************************************************************************)
(* Properties                                                              *)
(***************************************************************************)

\* The items above an item, the root excluded, by the parent pointers.
RECURSIVE AncestorsOf(_, _)
AncestorsOf(t, item) ==
  LET parent == t.nodes[item].parent
  IN IF parent = NoItem \/ parent.type = "Root" THEN {}
     ELSE {parent} \cup AncestorsOf(t, parent)

\* The items below an item, at any depth.
DescendantsOf(t, item) == {m \in Rows(t) : item \in AncestorsOf(t, m)}

\* The filter text of a pattern, and its parse.
FilterText(p) == StrRemove(p, <<"\\">>)

Parsed(p) ==
  IF FilterText(p) = <<>> THEN [filterdata_list |-> EmptyMap, filter |-> <<>>]
  ELSE ParseFilter(p)

\* The item matches a parse, and the parse of the pattern of the state.
MatchesIn(parsed, item) ==
  ItemMatchesFilter(tree, group_by_, item, parsed.filterdata_list, parsed.filter)

Matches(item) == MatchesIn(Parsed(pattern), item)

\* C1: for a non-empty filter, filterAcceptsRow accepts a row exactly when
\* the item matches, or an item above it (below the root) matches, or an
\* item below it at any depth matches.
C1_VisibleIffSelfAncestorOrDescendant ==
  (row # NoItem /\ row.type # "LoadingIndicator" /\ FilterText(pattern) # <<>>)
  => \A parsed \in {Parsed(pattern)} :
       accepted <=>
         \E m \in {row} \cup AncestorsOf(tree, row) \cup DescendantsOf(tree, row) :
           MatchesIn(parsed, m)

\* C1 witness: a row is accepted only because an item two or more levels
\* below it matches.
C1_Witness ==
  /\ row # NoItem
  /\ FilterText(pattern) # <<>>
  /\ accepted
  /\ \A m \in {row} \cup AncestorsOf(tree, row) \cup tree.nodes[row].children :
       ~Matches(m)
  /\ \E m \in DescendantsOf(tree, row) : Matches(m)


\* The songs below an item, and the artist containers of the tree.
SongsBelow(t, item) == {m \in DescendantsOf(t, item) : m.type = "Song"}

ArtistContainers(t) == {c \in Rows(t) : c.type = "Container" /\ c.level = 0}

TheBeatles(t) ==
  {c \in ArtistContainers(t) : t.nodes[c].display_text = <<"T", "h", "e", " ", "B", "e", "a", "t", "l", "e", "s">>}

\* The artist of no record at or below the item contains "beatles".
NoBeatlesArtist(t, item) ==
  \A m \in {item} \cup DescendantsOf(t, item) :
    \A i \in 1..(Len(t.nodes[m].metadata.artist) - 6) :
      ToLower(SubSeq(t.nodes[m].metadata.artist, i, i + 6)) # <<"b", "e", "a", "t", "l", "e", "s">>

\* C2: grouped by artist then album, with the filter "artist:beatles", the
\* artist container "The Beatles" (two album containers, five songs)
\* and everything below it is accepted, and an artist container with no
\* artist containing "beatles" at or below it is not.
C2_ArtistBeatlesSubtreeVisible ==
  (/\ row # NoItem
   /\ group_by_ = <<"Artist", "Album", "None">>
   /\ pattern = <<"a", "r", "t", "i", "s", "t", ":", "b", "e", "a", "t", "l", "e", "s">>)
  => \A b \in TheBeatles(tree) :
       (/\ Cardinality(tree.nodes[b].children) = 2
        /\ \A a \in tree.nodes[b].children : a.type = "Container"
        /\ Cardinality(SongsBelow(tree, b)) = 5)
       => /\ row \in {b} \cup DescendantsOf(tree, b) => accepted
          /\ (/\ row \in ArtistContainers(tree) \ {b}
              /\ NoBeatlesArtist(tree, row)) => ~accepted

\* C2 witness: the filter is asked about a sibling artist container of
\* "The Beatles" and rejects it.
C2_Witness ==
  /\ group_by_ = <<"Artist", "Album", "None">>
  /\ pattern = <<"a", "r", "t", "i", "s", "t", ":", "b", "e", "a", "t", "l", "e", "s">>
  /\ \E b \in TheBeatles(tree) :
       /\ Cardinality(tree.nodes[b].children) = 2
       /\ Cardinality(SongsBelow(tree, b)) = 5
       /\ row \in ArtistContainers(tree) \ {b}
       /\ NoBeatlesArtist(tree, row)
  /\ ~accepted


\* C3 as the specification states it: with the filter
\* "year>=1970 year<1980" a song matches only if its year is at least 1970
\* and less than 1980.  The code keeps one predicate per field, so only
\* year<1980 is applied.
C3_BothYearBoundsApply ==
  (/\ row # NoItem
   /\ row.type = "Song"
   /\ pattern = <<"y", "e", "a", "r", ">", "=", "1", "9", "7", "0", " ", "y", "e", "a", "r", "<", "1", "9", "8", "0">>
   /\ Matches(row))
  => /\ tree.nodes[row].metadata.year >= 1970
     /\ tree.nodes[row].metadata.year < 1980

\* C4 as the specification states it: "length:3:30" and "length>3:30" are
\* parsed into a length predicate on 210 seconds and leave no free text.
\* In the code both tokens contain a colon and are handled as
\* "length" ":" "3:30"; length is not a text column, so the token is free
\* text.
C4_LengthTimeTokenIsPredicate ==
  /\ pattern = <<"l", "e", "n", "g", "t", "h", ":", "3", ":", "3", "0">> =>
       /\ DOMAIN Parsed(pattern).filterdata_list = {<<"l", "e", "n", "g", "t", "h">>}
       /\ Parsed(pattern).filter = <<>>
       /\ (row # NoItem /\ row.type = "Song") =>
            (Matches(row) <=>
               tree.nodes[row].metadata.length = SecondsToNsec(210))
  /\ pattern = <<"l", "e", "n", "g", "t", "h", ">", "3", ":", "3", "0">> =>
       /\ DOMAIN Parsed(pattern).filterdata_list = {<<"l", "e", "n", "g", "t", "h">>}
       /\ Parsed(pattern).filter = <<>>
       /\ (row # NoItem /\ row.type = "Song") =>
            (Matches(row) <=>
               WideLess(SecondsToNsec(210), tree.nodes[row].metadata.length))


\* The title holds the words "some song" next to each other, in any case.
HasSomeSong(title) ==
  \E i \in 1..(Len(title) - 8) : ToLower(SubSeq(title, i, i + 8)) = <<"s", "o", "m", "e", " ", "s", "o", "n", "g">>

\* C5: the filter  title:"some song"  parses to exactly one predicate, on
\* title with the value "some song" (one space, no quotation marks), with no
\* free text; a song matches it exactly when its title contains
\* "some song" contiguously, letter case ignored.
C5_QuotedPhraseIsOneTitlePredicate ==
  pattern = <<"t", "i", "t", "l", "e", ":", "\"", "s", "o", "m", "e", " ", "s", "o", "n", "g", "\"">>
  => /\ DOMAIN Parsed(pattern).filterdata_list = {<<"t", "i", "t", "l", "e">>}
     /\ Parsed(pattern).filterdata_list[<<"t", "i", "t", "l", "e">>] =
          FilterData(<<"t", "i", "t", "l", "e">>, StringVariant(<<"s", "o", "m", "e", " ", "s", "o", "n", "g">>), <<>>)
     /\ Parsed(pattern).filter = <<>>
     /\ (row # NoItem /\ row.type = "Song") =>
          (Matches(row) <=> HasSomeSong(tree.nodes[row].metadata.title))

\* C5 witness: the filter is asked about a song whose title holds both
\* words but not next to each other, with nothing above the song, and
\* rejects it.
C5_Witness ==
  /\ pattern = <<"t", "i", "t", "l", "e", ":", "\"", "s", "o", "m", "e", " ", "s", "o", "n", "g", "\"">>
  /\ row # NoItem
  /\ row.type = "Song"
  /\ StrContainsCI(tree.nodes[row].metadata.title, <<"s", "o", "m", "e">>)
  /\ StrContainsCI(tree.nodes[row].metadata.title, <<"s", "o", "n", "g">>)
  /\ ~HasSomeSong(tree.nodes[row].metadata.title)
  /\ ~accepted


\* The tokens the token loop visits as tokens of their own, from index i on,
\* each with the outcome of its iteration: [token, ins, free].
RECURSIVE ParseSteps(_, _)
ParseSteps(tokens, i) ==
  IF i > Len(tokens) THEN <<>>
  ELSE LET step == ParseToken(tokens, i)
       IN <<[token |-> tokens[i], ins |-> step.ins, free |-> step.free]>>
          \o ParseSteps(tokens, step.i + 1)

\* The iterations of the token loop for the pattern of the state.
Steps ==
  IF FilterText(pattern) = <<>> THEN <<>>
  ELSE ParseSteps(FilterTokens(pattern), 1)

\* C6 as the specification states it: after parsing, the predicate set
\* holds exactly one predicate per field name, the one of the last token
\* that names the field.  Field names are compared as the parser recognises
\* them, letter case ignored.
C6_OnePredicatePerField ==
  \A k \in {j \in DOMAIN Steps : Steps[j].ins # <<>>} :
    LET name == ToLower(Steps[k].ins[1].field)
        same == {j \in DOMAIN Steps :
                   /\ Steps[j].ins # <<>>
                   /\ ToLower(Steps[j].ins[1].field) = name}
        last == CHOOSE j \in same : \A l \in same : l <= j
        slots == {key \in DOMAIN Parsed(pattern).filterdata_list :
                    ToLower(key) = name}
    IN /\ Cardinality(slots) = 1
       /\ \A key \in slots :
            Parsed(pattern).filterdata_list[key] = Steps[last].ins[1]

\* C7 as the specification states it: the letter case of a field name makes
\* no difference ("Artist:x" is "artist:x", "YEAR>1970" is "year>1970").
\* Values and free text are compared with the case ignored, so the filter
\* in lower case has to fill the same predicate slots and to accept the
\* same rows.
C7_FieldNameCaseInsensitive ==
  /\ {ToLower(key) : key \in DOMAIN Parsed(pattern).filterdata_list} =
       DOMAIN Parsed(ToLower(pattern)).filterdata_list
  /\ row # NoItem =>
       (accepted <=> FilterAcceptsItem(tree, group_by_, ToLower(pattern), row))

\* The value of a token on a numerical column is no value of the column's
\* type.
NativeParseFails(field, value) ==
  IF ListContainsCI(kIntSearchColumns, field) THEN ~ToInt(value).ok
  ELSE IF ListContainsCI(kUIntSearchColumns, field) THEN ~ToUInt(value).ok
  ELSE IF ListContainsCI(kInt64SearchColumns, field)
  THEN \E i \in DOMAIN value : ~IsDigit(value[i]) /\ value[i] # ":"
  ELSE ~ToInt(value).ok

\* The tokens whose iteration reaches the append to the free text, in
\* order.
FreeTokens ==
  LET kept == SelectSeq(Steps, LAMBDA s : s.free)
  IN [k \in DOMAIN kept |-> kept[k].token]

\* C8 as the specification states it: a token that does not become a
\* predicate is appended to the free text, this includes a token with an
\* empty field or value and a token on a numerical field whose value fails
\* to parse; the free text is these tokens in order, joined by one space.
C8_NonPredicateTokensAreFreeText ==
  /\ \A k \in DOMAIN Steps :
       /\ Steps[k].ins = <<>> => Steps[k].free
       /\ LET token == Steps[k].token
              foperator == OperatorRegexMatch(token)
              field == Trimmed(StrRemove(SectionFirst(token, foperator), foperator))
              value == Trimmed(StrRemove(SectionRest(token, foperator), foperator))
          IN (/\ ~StrContains(token, <<":">>)
              /\ foperator # <<>>
              /\ ListContainsCI(kNumericalSearchColumns, field)
              /\ NativeParseFails(field, value))
             => Steps[k].ins = <<>> /\ Steps[k].free
  /\ Parsed(pattern).filter = JoinSpace(FreeTokens)


\* The record satisfies one predicate: the field's data has the type of the
\* predicate's value and compares with it as the operator says.
Satisfies(metadata, filter_data) ==
  LET data == DataFromField(filter_data.field, metadata)
  IN /\ data.t = filter_data.value.t
     /\ FieldValueMatchesData(filter_data.value, data, filter_data.foperator)

\* C9: with a non-empty predicate set, a container matches only if the
\* field of every predicate is one of FieldsFromGroupBy of the grouping of
\* the container's level and the container's record satisfies every
\* predicate; a container without a record, a divider and the root never
\* match.
C9_ContainerMatchesOnlyOnGroupingFields ==
  \A parsed \in {Parsed(pattern)} :
    DOMAIN parsed.filterdata_list # {}
    => \A item \in DOMAIN tree.nodes :
         /\ (item.type = "Container" /\ MatchesIn(parsed, item))
            => /\ tree.nodes[item].metadata # DefaultSong
               /\ \A field \in DOMAIN parsed.filterdata_list :
                    /\ ListContains(FieldsFromGroupBy(group_by_[item.level + 1]),
                                    field)
                    /\ Satisfies(tree.nodes[item].metadata,
                                 parsed.filterdata_list[field])
         /\ item.type \in {"Divider", "Root"} => ~MatchesIn(parsed, item)

\* C9 witness: the filter has predicates and is asked about a container
\* below the top level that matches them.
C9_Witness ==
  /\ DOMAIN Parsed(pattern).filterdata_list # {}
  /\ row # NoItem
  /\ row.type = "Container"
  /\ row.level = 1
  /\ Matches(row)
  /\ accepted


\* The batches of valid songs of which the tree holds none.
NewBatches(t) ==
  {b \in Batches : \A s \in b : s.valid /\ s.id \notin DOMAIN t.song_nodes_}

\* The tree after the batch is added and then removed.
AddThenRemove(t, songs) ==
  RemoveSongsInternal(AddReAddOrUpdateSongsInternal(t, group_by_, songs), songs)

\* The add of the batch creates the compilation artist node.
CreatesCompilationArtistNode(t, songs) ==
  /\ t.compilation_artist_node_ = NoItem
  /\ \E s \in songs : IsCompilationSong(group_by_, s)

EmptiedBy(t, song) ==
  LET item == t.song_nodes_[song.id]
  IN {item} \cup {a \in AncestorsOf(t, item) :
                    DescendantsOf(t, a) \subseteq {item} \cup AncestorsOf(t, item)}

\* The nodes of the tree without the items of a set: the items are gone
\* and are in no list of children.
NodesWithout(t, gone) ==
  [n \in DOMAIN t.nodes \ gone |->
     [t.nodes[n] EXCEPT !.children = @ \ gone]]

SongNodesOf(t, id) ==
  {n \in DOMAIN t.nodes : n.type = "Song" /\ t.nodes[n].metadata.id = id}

\* The tree after a batch is applied by AddReAddOrUpdate once and twice.
AddedOnce(songs) == AddReAddOrUpdateSongsInternal(tree, group_by_, songs)

AddedTwice(songs) ==
  AddReAddOrUpdateSongsInternal(AddedOnce(songs), group_by_, songs)

\* C12: the second application of an Add batch creates no node: the set of
\* nodes, their edges and the cache maps are those after the first
\* application, and every id of the batch has exactly one song node.
C12_SecondAddCreatesNoNode ==
  Idle => \A songs \in Batches :
            \A once \in {AddedOnce(songs)} :
              \A twice \in {AddReAddOrUpdateSongsInternal(once, group_by_, songs)} :
                /\ DOMAIN twice.nodes = DOMAIN once.nodes
                /\ twice = once
                /\ \A s \in songs :
                     s.valid => Cardinality(SongNodesOf(twice, s.id)) = 1

\* C12 witness: a tree that holds songs already, and a batch of two songs,
\* one of them of an id the tree holds under another album, whose first
\* application creates nodes and whose second application creates none.
C12_Witness ==
  /\ Idle
  /\ DOMAIN tree.song_nodes_ # {}
  /\ \E songs \in Batches :
       /\ Cardinality(songs) = 2
       /\ \E s \in songs :
            /\ s.valid
            /\ s.id \in DOMAIN tree.song_nodes_
            /\ GroupKeys(group_by_, s) #
                 GroupKeys(group_by_, tree.nodes[tree.song_nodes_[s.id]].metadata)
       /\ \E s \in songs : s.valid /\ s.id \notin DOMAIN tree.song_nodes_
       /\ DOMAIN AddedOnce(songs).nodes # DOMAIN tree.nodes
       /\ AddedTwice(songs) = AddedOnce(songs)


\* The keys under which a map holds an item.
KeysOf(map, item) == {k \in DOMAIN map : map[k] = item}

\* The item of a map entry is a node of the tree and is in the list of
\* children of the node above it.
EntryIsLive(t, item) ==
  /\ item \in DOMAIN t.nodes
  /\ t.nodes[item].parent \in DOMAIN t.nodes
  /\ item \in t.nodes[t.nodes[item].parent].children

PatternTokens ==
  IF FilterText(pattern) = <<>> THEN <<>> ELSE FilterTokens(pattern)

\* The field and the value of a token with a colon.
ColonField(token) == Trimmed(StrRemove(SectionFirst(token, <<":">>), <<":">>))

ColonValue(token) == Trimmed(StrRemove(SectionRest(token, <<":">>), <<":">>))

\* The token opens a text predicate, and its value opens with a quotation
\* mark, which the value itself does not close.
IsTextPredicateToken(token) ==
  /\ StrContains(token, <<":">>)
  /\ ColonField(token) # <<>>
  /\ ColonValue(token) # <<>>
  /\ ListContainsCI(kTextSearchColumns, ColonField(token))
  /\ CharCount(ColonValue(token), "\"") <= 2

HasOpenQuote(token) ==
  /\ Head(ColonValue(token)) = "\""
  /\ CharCount(Tail(ColonValue(token)), "\"") # 1

HasNoQuote(token) == Head(ColonValue(token)) # "\""

\* The token holds one of the characters the operators : = == <> < <= >
\* >= are written with.
HasOperatorChar(token) ==
  \E k \in DOMAIN token : token[k] \in {":", "=", "<", ">"}

\* The first index after i whose token holds an operator, or a quotation
\* mark, one past the last token when there is none.
FirstOperatorAfter(tokens, i) ==
  CHOOSE y \in (i + 1)..(Len(tokens) + 1) :
    /\ y = Len(tokens) + 1 \/ HasOperatorChar(tokens[y])
    /\ \A z \in (i + 1)..(y - 1) : ~HasOperatorChar(tokens[z])

FirstQuoteAfter(tokens, i) ==
  CHOOSE y \in (i + 1)..(Len(tokens) + 1) :
    /\ y = Len(tokens) + 1 \/ StrContains(tokens[y], <<"\"">>)
    /\ \A z \in (i + 1)..(y - 1) : ~StrContains(tokens[z], <<"\"">>)

\* The token loop from token i on has the outcome of the token loop from
\* token next on that starts with the predicate field = value, or with no
\* predicate when the value is empty.
ResumesWith(tokens, i, field, value, next) ==
  ParseTokens(tokens, i, EmptyMap, <<>>) =
    ParseTokens(tokens, next,
                IF value = <<>> THEN EmptyMap
                ELSE MapInsert(EmptyMap, field,
                               FilterData(field, StringVariant(value), <<>>)),
                <<>>)

\* C14: phrase accumulation of a text predicate.  Without an opening
\* quotation mark the tokens after it, up to the first one that contains
\* an operator or to the end, are joined to the value with spaces and kept
\* out of the free text, and the loop goes on with the operator token.
\* With an open quotation mark the tokens after it are joined to the value
\* whether they contain operators or not, up to and with the part before
\* the quotation mark of the first token that has one, or to the end.
C14_PhraseAccumulation ==
  \A tokens \in {PatternTokens} :
    \A i \in DOMAIN tokens :
      IsTextPredicateToken(tokens[i]) =>
        /\ HasNoQuote(tokens[i]) =>
             \E stop \in {FirstOperatorAfter(tokens, i)} :
               ResumesWith(tokens, i, ColonField(tokens[i]),
                           JoinSpace(<<ColonValue(tokens[i])>>
                                     \o SubSeq(tokens, i + 1, stop - 1)),
                           stop)
        /\ HasOpenQuote(tokens[i]) =>
             \E stop \in {FirstQuoteAfter(tokens, i)} :
               ResumesWith(tokens, i, ColonField(tokens[i]),
                           JoinSpace(<<Tail(ColonValue(tokens[i]))>>
                                     \o SubSeq(tokens, i + 1, stop - 1)
                                     \o IF stop > Len(tokens) THEN <<>>
                                        ELSE <<Trimmed(SectionFirst(tokens[stop],
                                                                    <<"\"">>))>>),
                           IF stop > Len(tokens) THEN stop ELSE stop + 1)

\* C14 witness: the filter is asked about a row with a pattern in which a
\* text predicate without quotation marks takes a token and stops at an
\* operator token, and that token opens a quoted phrase which takes an
\* operator token and closes before the last token.
C14_Witness ==
  /\ row # NoItem
  /\ \E tokens \in {PatternTokens} : \E i, j \in DOMAIN tokens :
       /\ IsTextPredicateToken(tokens[i])
       /\ HasNoQuote(tokens[i])
       /\ FirstOperatorAfter(tokens, i) = j
       /\ j > i + 1
       /\ IsTextPredicateToken(tokens[j])
       /\ HasOpenQuote(tokens[j])
       /\ FirstQuoteAfter(tokens, j) < Len(tokens)
       /\ \E z \in (j + 1)..(FirstQuoteAfter(tokens, j) - 1) :
            HasOperatorChar(tokens[z])
  /\ DOMAIN Parsed(pattern).filterdata_list = {<<"a", "l", "b", "u", "m">>, <<"t", "i", "t", "l", "e">>}
  /\ Parsed(pattern).filterdata_list[<<"a", "l", "b", "u", "m">>].value = StringVariant(<<"a", "b", "b", "e", "y", " ", "r", "o", "a", "d">>)
  /\ Parsed(pattern).filterdata_list[<<"t", "i", "t", "l", "e">>].value = StringVariant(<<"o", "f", " ", "y", "e", "a", "r", "=", "0", " ", "x">>)
  /\ Parsed(pattern).filter = <<"y">>


\* C15 as the specification states it: a token that becomes a predicate is
\* not appended to the free text; after a filter of one such token the
\* free text is empty and a song matches by the predicate alone.  The code
\* inserts the predicate of a rating token and then goes on to the append.
C15_PredicateTokenIsNotFreeText ==
  /\ \A k \in DOMAIN Steps : Steps[k].ins # <<>> => ~Steps[k].free
  /\ (Len(PatternTokens) = 1 /\ Len(Steps) = 1 /\ Steps[1].ins # <<>>)
     => /\ Parsed(pattern).filter = <<>>
        /\ (row # NoItem /\ row.type = "Song")
           => (Matches(row) <=>
                 ItemMetadataMatches(tree.nodes[row].metadata,
                                     Parsed(pattern).filterdata_list, <<>>))


\* C16: visibility is closed under ancestors.  When filterAcceptsRow
\* accepts a row it accepts the row of every item above it, below the
\* root; and when an item matches, the row of every item below it is
\* accepted.
C16_VisibilityClosedUnderAncestors ==
  row # NoItem
  => /\ accepted =>
          \A a \in AncestorsOf(tree, row) :
            FilterAcceptsItem(tree, group_by_, pattern, a)
     /\ (FilterText(pattern) # <<>> /\ Matches(row)) =>
          /\ accepted
          /\ \A d \in DescendantsOf(tree, row) :
               FilterAcceptsItem(tree, group_by_, pattern, d)

\* C16 witness: the filter accepts a song row that does not match, below an
\* album that does not match either, because the artist container two
\* levels above matches; and it rejects the row of another item.
C16_Witness ==
  /\ row # NoItem
  /\ row.type = "Song"
  /\ FilterText(pattern) # <<>>
  /\ accepted
  /\ ~Matches(row)
  /\ ~Matches(tree.nodes[row].parent)
  /\ \E a \in AncestorsOf(tree, row) :
       /\ a.type = "Container"
       /\ a.level = 0
       /\ Matches(a)
  /\ \E n \in Rows(tree) : ~FilterAcceptsItem(tree, group_by_, pattern, n)

=============================================================================
